---- MODULE Spec2Model ----
(***************************************************************************)
(* Model of downloadDirectory of src/gitdir.js: the list of tree entries   *)
(* is filtered to the blobs under the requested directory, and the         *)
(* selected files are downloaded by downloadFile under pMap with           *)
(* concurrency 10, each fetch wrapped in pRetry with retries 5, the write  *)
(* started with fs.writeFile and finished in its callback.                 *)
(*                                                                         *)
(* One step of the model is one turn of the event loop: an event (a fetch  *)
(* settles, a backoff timer fires, a write finishes) together with every   *)
(* promise continuation it makes runnable, since no other event can        *)
(* interleave with those.                                                  *)
(***************************************************************************)
EXTENDS Integers, Sequences, FiniteSets

\* ---------------------------------------------------------------- bounds
\* Longest tree listing drawn in Init.
MaxTree == 3

\* Under SpecWindow, the jobs with something to do that may act next: the
\* SchedWindow lowest in input order.
SchedWindow == 2

\* Longest path, in segments, of the entries drawn in InitPath.
MaxPath == 4

\* Most files of the second run drawn in InitTwo.
MaxPeer == 2

\* ------------------------------------------------------ program constants
\* pMap(downloads, downloadFile, { concurrency: 10 })
concurrency == 10

\* pRetry(..., { retries: 5, ... })
retries == 5

\* ---------------------------------------------------------------- state
VARIABLES
    tree,             \* data.tree: the entries the listing returned
    faultsLeft,       \* environment: per entry, the failures its fetches and write may still meet
    downloads,        \* the array downloads: indices of the selected entries, in order
    total,            \* the total progressBar.start was given
    completed,        \* the value of progressBar
    failedDownloads,  \* the array failedDownloads
    aborted,          \* abortController.signal.aborted
    pool,             \* the pMap promise: idle, mapping, resolved, rejected
    nextIndex,        \* pMap's position in downloads: the next job to start
    pc,               \* per entry, the position of its downloadFile call
    attempt,          \* per entry, the calls of getContentFromUrl pRetry has made
    net,              \* per entry, the requests that went out to the network
    warned,           \* per entry, the calls of onFailedAttempt
    wr,               \* per entry, the state of its fs.writeFile: none, pending, ok, err
    reported,         \* the failed files printed by the final report
    crashed,          \* the process died of an uncaught exception
    peer              \* the run of another url of the command line: the same state, as a record

vars == <<tree, faultsLeft, downloads, total, completed, failedDownloads, aborted,
          pool, nextIndex, pc, attempt, net, warned, wr, reported, crashed, peer>>

\* The state of the first run alone.
runVars == <<tree, faultsLeft, downloads, total, completed, failedDownloads, aborted,
             pool, nextIndex, pc, attempt, net, warned, wr, reported>>

\* ---------------------------------------------------------------- helpers
\* Paths are sequences of segments. The directory asked for is s/ and the
\* output directory is /o.
dir == <<"s">>

outputDir == <<"o">>

\* The paths of a plain listing: a file under the directory, and one beside it.
PlainPaths == {<<"s", "f">>, <<"f">>}

Entries == [type : {"blob", "tree"}, path : PlainPaths]

BlobEntry == [type |-> "blob", path |-> <<"s", "f">>]

\* Every path of up to MaxPath segments, ".." among them.
Segs == {"s", "f", ".."}

AllPaths == UNION {[1..n -> Segs] : n \in 1..MaxPath}

PathEntries == [type : {"blob", "tree"}, path : AllPaths]

Front(p) == SubSeq(p, 1, Len(p) - 1)

\* p.startsWith(d), d ending in "/": the segments of d, and more after them.
StartsWith(p, d) == Len(p) > Len(d) /\ SubSeq(p, 1, Len(d)) = d

\* path.normalize of an absolute path: ".." drops the segment before it, and
\* is dropped itself at the root.
RECURSIVE Normalize(_)
Normalize(p) ==
    IF p = <<>> THEN <<>>
    ELSE LET r == Normalize(Front(p)) IN
         IF p[Len(p)] = ".."
         THEN IF r = <<>> THEN <<>> ELSE Front(r)
         ELSE Append(r, p[Len(p)])

\* path.join(a, b)
Join(a, b) == Normalize(a \o b)

Files == 1..Len(tree)

Idx(n) == [i \in 1..n |-> i]

Range(s) == {s[i] : i \in 1..Len(s)}

Min(a, b) == IF a <= b THEN a ELSE b

\* A filter that forgot the type would select the directories under dir too.
IsSelectedAnyType(e) == StartsWith(e.path, dir)

\* file.type === "blob" && file.path.startsWith(dir)
IsSelected(e) == e.type = "blob" /\ StartsWith(e.path, dir)

\* for (const file of tree) if (...) downloads.push(file)
Selected(t) == SelectSeq(Idx(Len(t)), LAMBDA i : IsSelected(t[i]))

\* progressBar.start(downloads.length, 0, ...)
ProgressTotal(d) == Len(d)

\* A pool that walked the array from its end would admit the last file first.
NextItemFromEnd(d, n) == d[Len(d) + 1 - n]

\* pMap takes the items from the iterator of downloads: the n-th in input order.
NextItem(d, n) == d[n]

\* A pool without a cap would start every mapper at once.
PoolBatchAll(n) == n

\* pMap starts at most `concurrency` mappers at once.
PoolBatch(n) == Min(concurrency, n)

\* A retry loop that is one off would grant one more retry.
CanRetryOneMore(n) == n <= retries + 1

\* p-retry retries while the failed attempt's number is at most `retries`.
CanRetry(n) == n <= retries

\* With one controller for the whole module, the signal of a run would be
\* aborted as soon as any run aborts.
SharedSignal(own, other) == own \/ other

\* The signal the fetches of a run are given: that of the AbortController its
\* own call of downloadDirectory created, whatever another run's is.
SignalOf(own, other) == own

\* A fetch that was not given the signal would send its request regardless.
SendsRequestAnyway(sig) == TRUE

\* node-fetch sends the request unless the signal it was given is already aborted.
SendsRequest(sig) == ~sig

\* A fetch that was not given the signal would be left alone by an abort.
AbortedFetchLeftAlone(p, n) == p

\* abortController.abort() on a job at position p whose attempt is its n-th:
\* a fetch in flight was given the signal and is rejected, which is a failed
\* attempt of pRetry; a job that waits for its timer is left as it is.
AbortedFetch(p, n) ==
    IF p = "fetching"
    THEN IF CanRetry(n) THEN "backoff" ELSE "rejected"
    ELSE p

\* An onFailedAttempt that ticked the bar would count a file once per attempt.
OnFailedAttemptTicks(c) == c + 1

\* onFailedAttempt only warns: the progress bar is left as it is.
OnFailedAttempt(c) == c

\* progressBar.increment()
Increment(c) == c + 1

\* The jobs started and not yet settled.
InFlight == {f \in Files : pc[f] \in {"fetching", "backoff"}}

Settled(f) == pc[f] \in {"resolved", "rejected"}

Started(f) == pc[f] # "pending"

\* const fullPath = path.join(outputDir, file.path)
FullPath(f) == Join(outputDir, tree[f].path)

\* path.dirname(fullPath), which mkdirSync creates with its parents.
DirName(p) == Front(p)

\* The session of the run: Running until pMap settles, then Completed or Aborted.
status ==
    CASE pool = "resolved" -> "Completed"
      [] pool = "rejected" -> "Aborted"
      [] OTHER -> "Running"

\* ---------------------------------------------------------------- Init
TypeOK ==
    /\ tree \in Seq(Entries \cup PathEntries)
    /\ faultsLeft \in [Files -> 0..(retries + 1)]
    /\ Range(downloads) \subseteq Files
    /\ total \in Nat /\ completed \in Nat
    /\ Range(failedDownloads) \subseteq Files
    /\ aborted \in BOOLEAN /\ crashed \in BOOLEAN
    /\ pool \in {"idle", "mapping", "resolved", "rejected"}
    /\ nextIndex \in 1..(Len(downloads) + 1)
    /\ pc \in [Files -> {"pending", "fetching", "backoff", "resolved", "rejected"}]
    /\ attempt \in [Files -> 0..(retries + 2)]
    /\ net \in [Files -> 0..(retries + 2)]
    /\ warned \in [Files -> 0..(retries + 2)]
    /\ wr \in [Files -> {"none", "pending", "ok", "err"}]
    /\ Range(reported) \subseteq Files
    /\ peer.files \in Nat
    /\ peer.aborted \in BOOLEAN
    /\ peer.pool \in {"none", "idle", "mapping", "resolved", "rejected"}
    /\ DOMAIN peer.pc = 1..peer.files

\* A second run of k selected files, each unreliable, when it reaches its
\* pMap call. Its downloads are its files 1..k in order.
PeerOf(k, state) ==
    [files |-> k,
     faultsLeft |-> [f \in 1..k |-> retries + 1],
     completed |-> 0,
     failedDownloads |-> <<>>,
     aborted |-> FALSE,
     pool |-> state,
     nextIndex |-> 1,
     pc |-> [f \in 1..k |-> "pending"],
     attempt |-> [f \in 1..k |-> 0],
     net |-> [f \in 1..k |-> 0],
     warned |-> [f \in 1..k |-> 0],
     wr |-> [f \in 1..k |-> "none"],
     reported |-> <<>>]

\* The command line named one url only.
NoPeer == PeerOf(0, "none")

\* The state of downloadDirectory when it reaches the pMap call.
InitRun(t, fl) ==
    /\ tree = t
    /\ faultsLeft = fl
    /\ downloads = Selected(t)
    /\ total = ProgressTotal(Selected(t))
    /\ completed = 0
    /\ failedDownloads = <<>>
    /\ aborted = FALSE
    /\ pool = "idle"
    /\ nextIndex = 1
    /\ pc = [f \in 1..Len(t) |-> "pending"]
    /\ attempt = [f \in 1..Len(t) |-> 0]
    /\ net = [f \in 1..Len(t) |-> 0]
    /\ warned = [f \in 1..Len(t) |-> 0]
    /\ wr = [f \in 1..Len(t) |-> "none"]
    /\ reported = <<>>
    /\ crashed = FALSE

\* One url on the command line: one run.
InitWith(t, fl) == InitRun(t, fl) /\ peer = NoPeer

Trees == UNION {[1..n -> Entries] : n \in 0..MaxTree}

\* The environments of a listing: each selected entry is healthy (no failure)
\* or unreliable (any fetch and the write may fail: retries + 1 failures are
\* as many as one entry can meet). mkdirSync is taken to succeed.
Faults(t, most) ==
    {fl \in [1..Len(t) -> {0, most}] :
        \A f \in 1..Len(t) : fl[f] > 0 => IsSelected(t[f])}

Init == \E t \in Trees : \E fl \in Faults(t, retries + 1) : InitWith(t, fl)

\* A listing of one more blob than the pool admits at once.
PoolTree == [i \in 1..(concurrency + 1) |-> BlobEntry]

\* The pool listing in an environment where at most one operation fails, on
\* the first entry.
InitPool == InitWith(PoolTree, [f \in 1..Len(PoolTree) |-> IF f = 1 THEN 1 ELSE 0])

\* The pool listing in an environment where the first entry is unreliable.
InitWindow ==
    InitWith(PoolTree, [f \in 1..Len(PoolTree) |-> IF f = 1 THEN retries + 1 ELSE 0])

\* Two urls on the command line: two runs side by side, the first of one
\* unreliable file.
InitTwo ==
    /\ InitRun(<<BlobEntry>>, <<retries + 1>>)
    /\ \E k \in 1..MaxPeer : peer = PeerOf(k, "idle")

\* A listing of one entry with any path.
InitPath ==
    \E e \in PathEntries : \E fl \in Faults(<<e>>, retries + 1) : InitWith(<<e>>, fl)

\* ---------------------------------------------------------------- actions
\* The pMap call: its first mappers are started, in input order. Each started
\* downloadFile creates its directory and sends its first request. With no
\* file to download pMap resolves at once, and the run stops the bar and
\* prints its report.
StartPool ==
    /\ ~crashed
    /\ UNCHANGED peer
    /\ pool = "idle"
    /\ LET started == {NextItem(downloads, k) : k \in 1..PoolBatch(Len(downloads))} IN
          /\ pc' = [f \in Files |-> IF f \in started THEN "fetching" ELSE pc[f]]
          /\ attempt' = [f \in Files |-> IF f \in started THEN 1 ELSE attempt[f]]
          /\ net' = [f \in Files |->
                       IF f \in started /\ SendsRequest(SignalOf(aborted, peer.aborted))
                       THEN 1 ELSE net[f]]
          /\ nextIndex' = PoolBatch(Len(downloads)) + 1
    /\ pool' = IF Len(downloads) = 0 THEN "resolved" ELSE "mapping"
    /\ reported' = failedDownloads
    /\ UNCHANGED <<tree, faultsLeft, downloads, total, completed, failedDownloads,
                   aborted, warned, wr, crashed>>

\* The fetch of f answers 200 and its body is read: pRetry resolves, the write
\* is started with fs.writeFile, the bar is incremented and downloadFile
\* resolves. pMap then starts the next pending job, or resolves when none is
\* left and none is in flight; the run then stops the bar and prints its report.
\* An aborted signal rejects the fetch, so there is no answer after an abort.
FetchOk(f) ==
    /\ ~crashed
    /\ UNCHANGED peer
    /\ pc[f] = "fetching"
    /\ ~SignalOf(aborted, peer.aborted)
    /\ wr' = [wr EXCEPT ![f] = "pending"]
    /\ completed' = Increment(completed)
    /\ IF pool = "mapping" /\ nextIndex <= Len(downloads)
       THEN LET g == NextItem(downloads, nextIndex) IN
            /\ nextIndex' = nextIndex + 1
            /\ pc' = [pc EXCEPT ![f] = "resolved", ![g] = "fetching"]
            /\ attempt' = [attempt EXCEPT ![g] = 1]
            /\ net' = [net EXCEPT ![g] =
                          IF SendsRequest(SignalOf(aborted, peer.aborted)) THEN 1 ELSE 0]
            /\ UNCHANGED <<pool, aborted, reported>>
       ELSE LET last == pool = "mapping" /\ InFlight = {f} IN
            /\ pc' = [pc EXCEPT ![f] = "resolved"]
            /\ pool' = IF last THEN "resolved" ELSE pool
            /\ reported' = IF last THEN failedDownloads ELSE reported
            /\ UNCHANGED <<nextIndex, attempt, net, aborted>>
    /\ UNCHANGED <<tree, faultsLeft, downloads, total, failedDownloads, warned,
                   crashed>>

\* The fetch of f fails (no answer, or an answer other than 200):
\* onFailedAttempt warns, and pRetry schedules the next attempt or, with no
\* retry left, rejects. The rejection rejects downloadFile and pMap, whose
\* catch aborts the controller; the run then stops the bar and prints its
\* report. The abort rejects every fetch in flight in the same turn: each is a
\* failed attempt of its job, which warns and goes on as after any failure.
FetchFail(f) ==
    /\ ~crashed
    /\ UNCHANGED peer
    /\ pc[f] = "fetching"
    /\ faultsLeft[f] > 0
    /\ faultsLeft' = [faultsLeft EXCEPT ![f] = @ - 1]
    /\ completed' = OnFailedAttempt(completed)
    /\ IF CanRetry(attempt[f])
       THEN /\ pc' = [pc EXCEPT ![f] = "backoff"]
            /\ warned' = [warned EXCEPT ![f] = @ + 1]
            /\ UNCHANGED <<pool, aborted, reported>>
       ELSE /\ pc' = [g \in Files |->
                        IF g = f THEN "rejected" ELSE AbortedFetch(pc[g], attempt[g])]
            /\ warned' = [g \in Files |->
                            IF g = f \/ pc[g] = "fetching" THEN warned[g] + 1
                            ELSE warned[g]]
            /\ pool' = "rejected"
            /\ aborted' = TRUE
            /\ reported' = IF pool = "mapping" THEN failedDownloads ELSE reported
    /\ UNCHANGED <<tree, downloads, total, failedDownloads, nextIndex,
                   attempt, net, wr, crashed>>

\* The backoff timer of f fires and pRetry calls getContentFromUrl again. With
\* the signal aborted the fetch rejects at once without a request: the attempt
\* has failed, onFailedAttempt warns and pRetry goes on as after any failure.
Retry(f) ==
    /\ ~crashed
    /\ UNCHANGED peer
    /\ pc[f] = "backoff"
    /\ attempt' = [attempt EXCEPT ![f] = @ + 1]
    /\ IF SendsRequest(SignalOf(aborted, peer.aborted))
       THEN /\ pc' = [pc EXCEPT ![f] = "fetching"]
            /\ net' = [net EXCEPT ![f] = @ + 1]
            /\ UNCHANGED <<warned, completed>>
       ELSE /\ pc' = [pc EXCEPT ![f] =
                         IF CanRetry(attempt[f] + 1) THEN "backoff" ELSE "rejected"]
            /\ warned' = [warned EXCEPT ![f] = @ + 1]
            /\ completed' = OnFailedAttempt(completed)
            /\ UNCHANGED net
    /\ UNCHANGED <<tree, faultsLeft, downloads, total, failedDownloads, aborted,
                   pool, nextIndex, wr, reported, crashed>>

\* The callback of fs.writeFile for f. With an error it pushes the file on
\* failedDownloads and throws; thrown from a callback of the event loop, the
\* error is an uncaught exception, which ends the process.
WriteDone(f) ==
    /\ ~crashed
    /\ UNCHANGED peer
    /\ wr[f] = "pending"
    /\ \E ok \in (IF faultsLeft[f] > 0 THEN BOOLEAN ELSE {TRUE}) :
          /\ wr' = [wr EXCEPT ![f] = IF ok THEN "ok" ELSE "err"]
          /\ faultsLeft' = [faultsLeft EXCEPT ![f] = IF ok THEN @ ELSE @ - 1]
          /\ failedDownloads' = IF ok THEN failedDownloads
                                ELSE Append(failedDownloads, f)
          /\ crashed' = ~ok
    /\ UNCHANGED <<tree, downloads, total, completed, aborted, pool,
                   nextIndex, pc, attempt, net, warned, reported>>

\* ---------------------------------------------------- the second run
\* The same handlers, acting on the record of the second run. The process,
\* and so its crash, is the one thing the two runs share.
PeerFiles == 1..peer.files

PeerInFlight == {f \in PeerFiles : peer.pc[f] \in {"fetching", "backoff"}}

\* pMap is called: the first jobs start.
PeerStart ==
    /\ ~crashed
    /\ peer.pool = "idle"
    /\ LET started == {NextItem([i \in PeerFiles |-> i], k) :
                          k \in 1..PoolBatch(peer.files)}
           sends == SendsRequest(SignalOf(peer.aborted, aborted))
       IN  peer' = [peer EXCEPT
                 !.pc = [f \in PeerFiles |-> IF f \in started THEN "fetching" ELSE @[f]],
                 !.attempt = [f \in PeerFiles |-> IF f \in started THEN 1 ELSE @[f]],
                 !.net = [f \in PeerFiles |-> IF f \in started /\ sends THEN 1 ELSE @[f]],
                 !.nextIndex = PoolBatch(peer.files) + 1,
                 !.pool = IF started = {} THEN "resolved" ELSE "mapping"]
    /\ UNCHANGED <<runVars, crashed>>

\* The fetch of f answers 200: the write is handed to fs, the bar is
\* incremented, the mapper resolves and the pool moves on.
PeerFetchOk(f) ==
    /\ ~crashed
    /\ peer.pc[f] = "fetching"
    /\ ~SignalOf(peer.aborted, aborted)
    /\ LET more == peer.pool = "mapping" /\ peer.nextIndex <= peer.files
           g == peer.nextIndex
           last == peer.pool = "mapping" /\ ~more /\ PeerInFlight = {f}
       IN  peer' = [peer EXCEPT
                 !.wr[f] = "pending",
                 !.completed = Increment(@),
                 !.pc = IF more THEN [@ EXCEPT ![f] = "resolved", ![g] = "fetching"]
                                ELSE [@ EXCEPT ![f] = "resolved"],
                 !.attempt = IF more THEN [@ EXCEPT ![g] = 1] ELSE @,
                 !.net = IF more THEN [@ EXCEPT ![g] = 1] ELSE @,
                 !.nextIndex = IF more THEN @ + 1 ELSE @,
                 !.pool = IF last THEN "resolved" ELSE @,
                 !.reported = IF last THEN peer.failedDownloads ELSE @]
    /\ UNCHANGED <<runVars, crashed>>

\* The fetch of f fails: pRetry backs off, or gives up, and then pMap rejects
\* and the run's own controller is aborted.
PeerFetchFail(f) ==
    /\ ~crashed
    /\ peer.pc[f] = "fetching"
    /\ peer.faultsLeft[f] > 0
    /\ IF CanRetry(peer.attempt[f])
       THEN peer' = [peer EXCEPT
                 !.faultsLeft[f] = @ - 1,
                 !.pc[f] = "backoff",
                 !.warned[f] = @ + 1,
                 !.completed = OnFailedAttempt(@)]
       ELSE peer' = [peer EXCEPT
                 !.faultsLeft[f] = @ - 1,
                 !.pc = [g \in PeerFiles |->
                           IF g = f THEN "rejected"
                           ELSE AbortedFetch(peer.pc[g], peer.attempt[g])],
                 !.warned = [g \in PeerFiles |->
                           IF g = f \/ peer.pc[g] = "fetching" THEN @[g] + 1 ELSE @[g]],
                 !.completed = OnFailedAttempt(@),
                 !.pool = "rejected",
                 !.aborted = TRUE,
                 !.reported = peer.failedDownloads]
    /\ UNCHANGED <<runVars, crashed>>

\* The back-off of f is over: the next attempt calls fetch with the run's signal.
PeerRetry(f) ==
    /\ ~crashed
    /\ peer.pc[f] = "backoff"
    /\ IF SendsRequest(SignalOf(peer.aborted, aborted))
       THEN peer' = [peer EXCEPT
                 !.attempt[f] = @ + 1,
                 !.net[f] = @ + 1,
                 !.pc[f] = "fetching"]
       ELSE peer' = [peer EXCEPT
                 !.attempt[f] = @ + 1,
                 !.warned[f] = @ + 1,
                 !.completed = OnFailedAttempt(@),
                 !.pc[f] = IF CanRetry(peer.attempt[f] + 1) THEN "backoff" ELSE "rejected"]
    /\ UNCHANGED <<runVars, crashed>>

\* fs calls back the write of f.
PeerWriteDone(f) ==
    /\ ~crashed
    /\ peer.wr[f] = "pending"
    /\ \E ok \in (IF peer.faultsLeft[f] > 0 THEN BOOLEAN ELSE {TRUE}) :
          /\ peer' = [peer EXCEPT
                 !.wr[f] = IF ok THEN "ok" ELSE "err",
                 !.faultsLeft[f] = IF ok THEN @ ELSE @ - 1,
                 !.failedDownloads = IF ok THEN @ ELSE Append(@, f)]
          /\ crashed' = ~ok
    /\ UNCHANGED runVars

Next ==
    \/ StartPool
    \/ \E f \in Files : FetchOk(f)
    \/ \E f \in Files : FetchFail(f)
    \/ \E f \in Files : Retry(f)
    \/ \E f \in Files : WriteDone(f)

Spec == Init /\ [][Next]_vars

\* Every interleaving of the pool listing while hardly anything fails.
SpecPool == InitPool /\ [][Next]_vars

\* One entry of any path.
SpecPath == InitPath /\ [][Next]_vars

\* f has an event to come: an answer, a timer or the end of a write.
Busy(f) == pc[f] \in {"fetching", "backoff"} \/ wr[f] = "pending"

\* f is among the SchedWindow lowest busy entries.
InWindow(f) == Cardinality({g \in Files : g < f /\ Busy(g)}) < SchedWindow

\* The schedules in which only the lowest busy entries act: ten jobs that run
\* out their retries after an abort have too many interleavings to enumerate.
NextWindow ==
    \/ StartPool
    \/ \E f \in Files : InWindow(f) /\ FetchOk(f)
    \/ \E f \in Files : InWindow(f) /\ FetchFail(f)
    \/ \E f \in Files : InWindow(f) /\ Retry(f)
    \/ \E f \in Files : InWindow(f) /\ WriteDone(f)

SpecWindow == InitWindow /\ [][NextWindow]_vars

\* The handlers of two runs, interleaved.
NextTwo ==
    \/ StartPool
    \/ \E f \in Files : FetchOk(f)
    \/ \E f \in Files : FetchFail(f)
    \/ \E f \in Files : Retry(f)
    \/ \E f \in Files : WriteDone(f)
    \/ PeerStart
    \/ \E f \in PeerFiles : PeerFetchOk(f)
    \/ \E f \in PeerFiles : PeerFetchFail(f)
    \/ \E f \in PeerFiles : PeerRetry(f)
    \/ \E f \in PeerFiles : PeerWriteDone(f)

SpecTwo == InitTwo /\ [][NextTwo]_vars

\* ---------------------------------------------------------------- claims
IsPrefix(a, b) == Len(a) <= Len(b) /\ \A i \in 1..Len(a) : a[i] = b[i]

\* The job of f ended in failure: downloadFile rejected, or its write failed.
Failed(f) == pc[f] = "rejected" \/ wr[f] = "err"

\* The environment never failed an operation on f.
Healthy(f) == faultsLeft[f] = 0 /\ net[f] <= 1

\* C1: failure isolation. When a job ends with its retries exhausted, the
\* cancellation token is not cancelled by it and the session does not become
\* Aborted.
C1_FailureIsolation ==
    [][\A f \in Files :
          (~aborted /\ pc[f] # "rejected" /\ pc'[f] = "rejected")
              => (~aborted' /\ pool' # "rejected")]_vars

\* C2: in every reachable state the jobs started and not yet settled number
\* at most the concurrency cap.
C2_ConcurrencyCap == Cardinality(InFlight) <= concurrency

\* C2: the cap binds again after a slot was freed: a job has resolved, the
\* pending one took its place, and the pool is full.
C2_PoolFullAfterRefill ==
    /\ Cardinality(InFlight) = concurrency
    /\ \E f \in Files : pc[f] = "resolved"

\* C3: a run that is not aborted ends with one outcome per selected
\* descriptor and completed = total, and every job that ended, resolved or
\* Failed, has incremented completed by exactly one.
C3_EveryOutcomeCounted ==
    /\ status = "Completed" =>
          /\ completed = total
          /\ \A f \in Range(downloads) : Settled(f)
    /\ completed = Cardinality({f \in Files : Settled(f)})

\* C4: at the end of the session failures is exactly the set of descriptors
\* whose job ended Failed; with one descriptor whose fetch failed for good
\* and every other one healthy, completed = total as well.
C4_FailuresAreTheFailedJobs ==
    status # "Running" =>
       /\ Range(failedDownloads) = {f \in Files : Failed(f)}
       /\ \A f \in Files :
             (pc[f] = "rejected" /\ \A g \in Files \ {f} : Healthy(g))
                 => completed = total

\* C5, as claimed: no job makes more than 5 fetch attempts.
C5_AtMostFiveAttempts == \A f \in Files : attempt[f] <= 5

\* C5, amended: a job makes at most retries + 1 = 6 fetch attempts; a job
\* that resolved had at most 5 failed attempts before the one that succeeded,
\* and a job rejects only when its 6th attempt has failed.
C5_AtMostSixAttempts ==
    \A f \in Files :
       /\ attempt[f] <= retries + 1
       /\ pc[f] = "resolved" => warned[f] = attempt[f] - 1
       /\ pc[f] = "rejected" => attempt[f] = retries + 1 /\ warned[f] = retries + 1

\* C5: a fetch that failed 5 times and succeeded on its 6th attempt, next to a
\* fetch that failed 6 times.
C5_SixthAttemptDecides ==
    /\ \E f \in Files : pc[f] = "resolved" /\ warned[f] = retries
    /\ \E f \in Files : pc[f] = "rejected" /\ net[f] = retries + 1

\* C6: once the token is cancelled no pending job is started and no request
\* goes out to the network: a fetch called with the cancelled token fails
\* without a request.
C6_NothingNewAfterCancel ==
    [][aborted =>
          \A f \in Files :
             /\ pc[f] = "pending" => pc'[f] = "pending"
             /\ net'[f] = net[f]
             /\ attempt'[f] > attempt[f] =>
                   pc'[f] # "fetching" /\ warned'[f] = warned[f] + 1]_vars

\* C6: the token is cancelled while a job is still pending, and a job has
\* called fetch with the cancelled token.
C6_CancelledWithPendingJob ==
    /\ aborted
    /\ \E f \in Range(downloads) : pc[f] = "pending"
    /\ \E f \in Files : attempt[f] > net[f]

\* C7: a job that is between two attempts when the token is cancelled makes
\* no further attempt and no further failed-attempt notification.
C7_RetryStopsOnCancel ==
    [][\A f \in Files :
          (aborted /\ pc[f] = "backoff")
              => (attempt'[f] = attempt[f] /\ warned'[f] = warned[f])]_vars

\* C8: when the session has ended, every selected descriptor whose job was
\* started has exactly one outcome, and every other one has none and is
\* neither counted nor in failures.
C8_OneOutcomePerStartedJob ==
    status # "Running" =>
       \A f \in Range(downloads) :
          IF Started(f)
          THEN Settled(f)
          ELSE wr[f] = "none" /\ f \notin Range(failedDownloads)

\* C9: a write failure is in failures when the final report is printed: once
\* the report is out, every file whose write failed is in it.
C9_WriteFailuresReported ==
    status # "Running" =>
       \A f \in Files : wr[f] = "err" => f \in Range(reported)

\* C10: completed never exceeds total, completed never decreases and
\* failures never shrinks.
C10_Monotonic ==
    /\ [](completed <= total)
    /\ [][completed' >= completed /\ IsPrefix(failedDownloads, failedDownloads')]_vars

\* C10: every selected file is counted and a failure is on the list.
C10_AllCountedOneFailed ==
    /\ total >= 2
    /\ completed = total
    /\ failedDownloads # <<>>

\* C11: descriptors are admitted in input order: a job is never started
\* before the job of a descriptor that comes earlier in the input.
C11_AdmittedInInputOrder ==
    \A i, j \in 1..Len(downloads) :
       (i < j /\ Started(downloads[j])) => Started(downloads[i])

\* C11: jobs complete out of input order (a later one has resolved while an
\* earlier one is still fetching) and the last descriptor, which had to wait
\* for a slot, has been admitted.
C11_LastAdmittedOutOfOrderCompletion ==
    /\ Len(downloads) > concurrency
    /\ Started(downloads[Len(downloads)])
    /\ \E i, j \in 1..Len(downloads) :
          i < j /\ pc[downloads[i]] = "fetching" /\ pc[downloads[j]] = "resolved"

\* C12: a failure of a file, of its fetch or of its write, is a recorded
\* value and never a crash of the run.
C12_FailuresAreNotCrashes ==
    (failedDownloads # <<>> \/ \E f \in Files : Failed(f)) => ~crashed

\* C14: no directory is created and no file is written outside the
\* destination root, whatever the path of the descriptor.
C14_NothingOutsideRoot ==
    \A f \in Files :
       /\ Started(f) =>
             \/ DirName(FullPath(f)) = outputDir
             \/ StartsWith(DirName(FullPath(f)), outputDir)
       /\ wr[f] # "none" =>
             \/ FullPath(f) = outputDir
             \/ StartsWith(FullPath(f), outputDir)

\* C13: only blobs are handed to a download job: an entry that is no blob
\* is never started, fetched or written; and total is the number of
\* descriptors selected, the blobs under the directory.
C13_OnlyBlobsDownloaded ==
    /\ \A f \in Files :
          (Started(f) \/ attempt[f] > 0 \/ net[f] > 0 \/ wr[f] # "none")
              => tree[f].type = "blob"
    /\ total = Len(downloads)
    /\ total = Cardinality({f \in Files :
                               tree[f].type = "blob" /\ StartsWith(tree[f].path, dir)})

\* C13: a listing with a directory entry under dir beside a blob has been
\* downloaded to its end: the blob is written, the directory entry untouched.
C13_TreeEntrySkipped ==
    /\ pool = "resolved"
    /\ \E f \in Files : tree[f].type = "tree" /\ StartsWith(tree[f].path, dir)
    /\ \E f \in Files : wr[f] = "ok"

C16_RunReachesItsEnd ==
    /\ status = "Running" => ENABLED Next
    /\ status = "Completed" =>
          /\ nextIndex > Len(downloads)
          /\ \A f \in Range(downloads) : pc[f] = "resolved"

\* C18: once the run has ended (bar stopped, report printed) no job of it
\* makes a fetch attempt, starts or finishes a write, increments completed or
\* adds to failures.
C18_QuietAfterEnd ==
    [][status # "Running" =>
          UNCHANGED <<attempt, net, wr, completed, failedDownloads>>]_vars

\* C19: completed counts only files on disk: it never exceeds the number of
\* files fully written plus the number of Failed jobs.
C19_CompletedCountsWrittenFiles ==
    completed <= Cardinality({f \in Files : wr[f] = "ok"})
                    + Cardinality({f \in Files : Failed(f)})

\* C17: each run owns its cancellation token. The step in which one run
\* aborts changes nothing of the other run, and while one run is aborted and
\* the other is not, every fetch call of the other sends its request and every
\* answer it gets is taken: the other run is neither cancelled nor held up.
C17_OwnToken ==
    [][/\ aborted' # aborted => peer' = peer
       /\ peer.aborted' # peer.aborted => UNCHANGED runVars
       /\ aborted /\ ~peer.aborted =>
             \A f \in PeerFiles :
                 /\ peer.attempt'[f] > peer.attempt[f] => peer.net'[f] = peer.net[f] + 1
                 /\ peer.pc[f] = "fetching" => ENABLED PeerFetchOk(f)
       /\ peer.aborted /\ ~aborted =>
             \A f \in Files :
                 /\ attempt'[f] > attempt[f] => net'[f] = net[f] + 1
                 /\ pc[f] = "fetching" => ENABLED FetchOk(f)]_vars

\* The first run has aborted, and the second has since fetched again after a
\* failure and come to its end with every file written.
C17_PeerCompletesAfterAbort ==
    /\ aborted
    /\ ~peer.aborted
    /\ peer.pool = "resolved"
    /\ \A f \in PeerFiles : peer.wr[f] = "ok"
    /\ \E f \in PeerFiles : peer.net[f] = peer.attempt[f] /\ peer.net[f] >= 2

====
